---- MODULE Spec2Model ----
(***************************************************************************)
(* The message scheduler of learning-todomvc (src/src/scheduler.rs) and    *)
(* the collaborators it dispatches to, as a state machine with an explicit *)
(* call stack: add_message, run and next_message call each other           *)
(* recursively, and a collaborator handler that is being dispatched may    *)
(* call add_message again before it returns.                               *)
(*                                                                         *)
(* Every action executes the code of the frame on top of the stack from    *)
(* its current position up to the next call or return.                     *)
(***************************************************************************)
EXTENDS Integers, Sequences, FiniteSets

\* Total number of add_message calls made by top-level producers and by
\* handlers that obey only the collaborator contract.
MaxMsgs == 4

\* Total number of set_controller and set_view calls.
MaxSets == 2

\* The values Date::now() returns are 1..MaxNow.
MaxNow == 2

\* The number of items a client inserts into a Store directly.
MaxItems == 2

VARIABLES
    events,       \* Scheduler.events: the Vec<Message>, last element is the top
    running,      \* Scheduler.running
    controller,   \* Scheduler.controller: "none" or the bound Controller
    view,         \* Scheduler.view: "none" or the bound View
    borrowed,     \* the RefCells that are mutably borrowed right now
    aborted,      \* exit() was reached: std::process::abort()
    stack,        \* the call stack, last element is the innermost frame
    enq,          \* history: every message pushed, in push order
    log,          \* history: every message popped, in pop order
    setC,         \* history: the arguments of the set_controller calls
    setV,         \* history: the arguments of the set_view calls
    data,         \* Store.data of the crate's Controller: the ItemList
    storage,      \* the localStorage entry under Store.name
    panicked,     \* a handler of the crate, or a Store method, panicked
    result,       \* the Store method called last and what it returned
    handle,       \* Controller.sched of the crate's Controller: what its Weak<Scheduler> refers to
    boot          \* history: the calls app() has made, in order

\* The state of the crate's own collaborators.
crate_vars == <<data, storage, panicked, result, handle, boot>>

vars == <<events, running, controller, view, borrowed, aborted, stack, enq, log, setC, setV,
          data, storage, panicked, result, handle, boot>>

\* ControllerMessage variants (payload arguments are not interpreted by the
\* scheduler); SetPage is the message app() enqueues at start-up.
ControllerMessage == {"SetPage", "AddItem"}

\* ViewMessage has the single variant ClearNewTodo.
ViewMessage == {"ClearNewTodo"}

\* enum Message { Controller(ControllerMessage), View(ViewMessage) }
Message ==
    [target : {"Controller"}, payload : ControllerMessage]
        \cup [target : {"View"}, payload : ViewMessage]

\* The collaborators that can sit in a cell: the crate's own Controller / View
\* ("crate", whose handlers are the ones in controller.rs and view.rs) and a
\* collaborator of which only the dispatch contract is known ("contract": it
\* may call add_message any number of times before it returns).
Collaborators == {"crate", "contract"}

NoMsg == [target |-> "none", payload |-> "none", id |-> 0]

\* A message that is an argument of add_message and not yet in the queue.
Unsent(m) == [target |-> m.target, payload |-> m.payload, id |-> 0]

Frame(fn, pc, msg, who, n) == [fn |-> fn, pc |-> pc, msg |-> msg, who |-> who, n |-> n]

Top == stack[Len(stack)]

Pop(s) == SubSeq(s, 1, Len(s) - 1)

Push(s, f) == Append(s, f)

SetTop(s, f) == [s EXCEPT ![Len(s)] = f]

\* RefCell::try_borrow / try_borrow_mut succeed when the cell is not
\* mutably borrowed (the scheduler never holds a shared borrow across a call).
TryBorrow(cell) == cell \notin borrowed

Ids(q) == {q[i].id : i \in 1..Len(q)}

\* ItemQuery::EmptyItemQuery; the fields a variant does not have are 0 / FALSE.
EmptyItemQuery == [kind |-> "EmptyItemQuery", id |-> 0, completed |-> FALSE]

\* No Store method was called yet.
NoResult == [op |-> "none", some |-> FALSE, list |-> <<>>, query |-> EmptyItemQuery]

\* localStorage has no entry under Store.name.
NoEntry == [present |-> FALSE, text |-> [json |-> FALSE, value |-> [t |-> "array", v |-> <<>>]]]

\* Scheduler::new(), and an empty localStorage
Init ==
    /\ events = <<>>
    /\ running = FALSE
    /\ controller = "none"
    /\ view = "none"
    /\ borrowed = {}
    /\ aborted = FALSE
    /\ stack = <<>>
    /\ enq = <<>>
    /\ log = <<>>
    /\ setC = <<>>
    /\ setV = <<>>
    /\ data = <<>>
    /\ storage = NoEntry
    /\ panicked = FALSE
    /\ result = NoResult
    /\ handle = "alive"
    /\ boot = <<>>

\* The diagnostic is reported and the caller continues.
exit_Returns == UNCHANGED aborted

\* exit(message): console.error, then std::process::abort(). Nothing runs
\* after it: every action below requires ~aborted.
exit == aborted' = TRUE

Idle == stack = <<>> /\ ~aborted

At(fn, pc) == ~aborted /\ stack # <<>> /\ Top.fn = fn /\ Top.pc = pc

\* The frame that called the innermost one, when it is a handler.
CallerMsgId ==
    IF Len(stack) > 1 /\ stack[Len(stack) - 1].fn = "call"
    THEN stack[Len(stack) - 1].msg.id ELSE 0

Bound(target) == IF target = "Controller" THEN controller ELSE view

Last(q) == IF q = <<>> THEN "none" ELSE q[Len(q)]


(***************************************************************************)
(* Scheduler::add_message                                                  *)
(***************************************************************************)

\* The loop is started whatever the flag says.
StartsRun_Always(r) == TRUE

\* The test of the flag without its negation.
StartsRun_Inverted(r) == r

\* `if !running { self.run(); }`
StartsRun(r) == ~r

\* The body of add_message up to its call of run or its return: read the
\* running flag, push the message, start the loop unless it is running.
add_message ==
    /\ At("add_message", "start")
    /\ IF ~TryBorrow("running")
       THEN exit /\ UNCHANGED <<events, enq, stack>>
       ELSE IF ~TryBorrow("events")
       THEN exit /\ UNCHANGED <<events, enq, stack>>
       ELSE LET m == [target |-> Top.msg.target, payload |-> Top.msg.payload,
                      id |-> Len(enq) + 1]
            IN /\ events' = Append(events, m)
               /\ enq' = Append(enq, [target |-> m.target, payload |-> m.payload,
                                      during |-> CallerMsgId, below |-> Ids(events),
                                      bound |-> Bound(m.target), running |-> running])
               /\ stack' = IF StartsRun(running)
                           THEN Push(SetTop(stack, [Top EXCEPT !.pc = "ret"]),
                                     Frame("run", "start", NoMsg, "none", 0))
                           ELSE Pop(stack)
               /\ UNCHANGED aborted
    /\ UNCHANGED <<running, controller, view, borrowed, log, setC, setV>>
    /\ UNCHANGED crate_vars

\* run() has returned into add_message, which returns.
add_message_return ==
    /\ At("add_message", "ret")
    /\ stack' = Pop(stack)
    /\ UNCHANGED <<events, running, controller, view, borrowed, aborted, enq, log, setC, setV>>
    /\ UNCHANGED crate_vars

(***************************************************************************)
(* Scheduler::run                                                          *)
(***************************************************************************)

\* The two values of the flag exchanged.
RunFlag_Inverted(len) == len = 0

\* The flag is never cleared.
RunFlag_Stuck(len) == TRUE

\* The value run writes to the running flag for a queue of length len.
RunFlag(len) == len # 0

\* The body of run up to its call of next_message or its return.
run ==
    /\ At("run", "start")
    /\ IF ~TryBorrow("events") \/ ~TryBorrow("running")
       THEN exit /\ UNCHANGED <<running, stack>>
       ELSE IF Len(events) = 0
       THEN /\ running' = RunFlag(Len(events))
            /\ stack' = Pop(stack)
            /\ UNCHANGED aborted
       ELSE /\ running' = RunFlag(Len(events))
            /\ stack' = Push(SetTop(stack, [Top EXCEPT !.pc = "ret"]),
                             Frame("next_message", "start", NoMsg, "none", 0))
            /\ UNCHANGED aborted
    /\ UNCHANGED <<events, controller, view, borrowed, enq, log, setC, setV>>
    /\ UNCHANGED crate_vars

\* next_message() has returned into run, which returns.
run_return ==
    /\ At("run", "ret")
    /\ stack' = Pop(stack)
    /\ UNCHANGED <<events, running, controller, view, borrowed, aborted, enq, log, setC, setV>>
    /\ UNCHANGED crate_vars

(***************************************************************************)
(* Scheduler::next_message                                                 *)
(***************************************************************************)

\* The oldest message is taken (a FIFO queue).
PopIndex_Front(q) == 1

\* Vec::pop takes the last element.
PopIndex(q) == Len(q)

\* The message is read and left in the queue.
Remove_Keep(q, i) == q

\* Vec::pop: the queue without its element i.
Remove(q, i) == SubSeq(q, 1, i - 1) \o SubSeq(q, i + 1, Len(q))

\* The arms of the match are swapped.
Route_Swapped(event) == IF event.target = "Controller" THEN "view" ELSE "controller"

\* `match event`: the cell a message is routed to.
Route(event) == IF event.target = "Controller" THEN "controller" ELSE "view"

Cell(c) == IF c = "controller" THEN controller ELSE view

Callee(c) == IF c = "controller" THEN "Controller" ELSE "View"

\* The Option is not checked before the call.
Dispatches_Unchecked(who) == TRUE

\* `if let Some(ref mut ag) = *controller { ag.call(e); }`: whether the call is made.
Dispatches(who) == who # "none"

\* next_message returns without calling run again.
ContinuesRun_Never == FALSE

\* `self.run()` after the match: whether the loop goes on after a message.
ContinuesRun == TRUE

AfterMessage(s) ==
    IF ContinuesRun
    THEN Push(SetTop(s, [s[Len(s)] EXCEPT !.pc = "ret"]), Frame("run", "start", NoMsg, "none", 0))
    ELSE Pop(s)

\* The flag is left as it is.
FlagOnEmpty_Kept == running

\* `*running = false;` when the pop returned None
FlagOnEmpty == FALSE

\* next_message returns when the cell is empty.
AfterDrop_Returns(s) == Pop(s)

\* `if let Some(ref mut ag) = *controller` without an else: when the cell is
\* empty nothing is called and the code after the match runs all the same.
AfterDrop(s) == AfterMessage(s)

\* The body of next_message up to the handler call, the call of run or the return.
next_message ==
    /\ At("next_message", "start")
    /\ IF ~TryBorrow("events")
       THEN exit /\ UNCHANGED <<events, running, borrowed, stack, log>>
       ELSE IF events = <<>>
       THEN IF ~TryBorrow("running")
            THEN exit /\ UNCHANGED <<events, running, borrowed, stack, log>>
            ELSE /\ running' = FlagOnEmpty
                 /\ stack' = Pop(stack)
                 /\ UNCHANGED <<events, borrowed, aborted, log>>
       ELSE LET event == events[PopIndex(events)]
                cell  == Route(event)
                who   == Cell(cell)
            IN /\ events' = Remove(events, PopIndex(events))
               /\ IF ~TryBorrow(cell)
                  THEN exit /\ UNCHANGED <<running, borrowed, stack, log>>
                  ELSE IF Dispatches(who)
                  THEN /\ borrowed' = borrowed \cup {cell}
                       /\ log' = Append(log, [kind |-> "dispatch", id |-> event.id,
                                              callee |-> Callee(cell), who |-> who,
                                              payload |-> event.payload])
                       /\ stack' = Push(SetTop(stack, [Top EXCEPT !.pc = "called", !.msg = event]),
                                        Frame("call", "body", event, who, 0))
                       /\ UNCHANGED <<running, aborted>>
                  ELSE /\ log' = Append(log, [kind |-> "drop", id |-> event.id,
                                              callee |-> "none", who |-> "none",
                                              payload |-> event.payload])
                       /\ stack' = AfterDrop(stack)
                       /\ UNCHANGED <<running, borrowed, aborted>>
    /\ UNCHANGED <<controller, view, enq, setC, setV>>
    /\ UNCHANGED crate_vars

\* The handler has returned: the RefMut of the collaborator is dropped and
\* next_message calls run again.
next_message_called ==
    /\ At("next_message", "called")
    /\ borrowed' = borrowed \ {Route(Top.msg)}
    /\ stack' = AfterMessage(stack)
    /\ UNCHANGED <<events, running, controller, view, aborted, enq, log, setC, setV>>
    /\ UNCHANGED crate_vars

\* run() has returned into next_message, which returns.
next_message_return ==
    /\ At("next_message", "ret")
    /\ stack' = Pop(stack)
    /\ UNCHANGED <<events, running, controller, view, borrowed, aborted, enq, log, setC, setV>>
    /\ UNCHANGED crate_vars

(***************************************************************************)
(* Controller::call and View::call                                         *)
(***************************************************************************)

ViewClearNewTodo == [target |-> "View", payload |-> "ClearNewTodo"]

\* Controller::call runs add_item for AddItem: it inserts the new item into
\* its Store, then forwards one ClearNewTodo to the scheduler. n counts the
\* calls the handler has made. Every other Controller method and View::call
\* have empty bodies.
CrateInserts(msg, n) ==
    msg.target = "Controller" /\ msg.payload = "AddItem" /\ n = 0

\* The messages the crate's handler passes to add_message next.
CrateSends(msg, n) ==
    IF msg.target = "Controller" /\ msg.payload = "AddItem" /\ n = 1
    THEN {ViewClearNewTodo} ELSE {}

\* A collaborator known only by its contract may enqueue anything.
ContractSends == IF Len(enq) < MaxMsgs THEN Message ELSE {}

Sends(who, msg, n) == IF who = "crate" THEN CrateSends(msg, n) ELSE ContractSends

\* The handle is taken for alive whatever it refers to.
Upgrades_Always(h) == TRUE

\* Controller::add_message reaches sched.add_message when self.sched holds
\* Some(weak) and weak.upgrade() returns the scheduler.
Upgrades(h) == h = "alive"

\* A handler that is running calls add_message(m); the crate's Controller
\* does so through Controller::add_message.
call_add_message(m) ==
    /\ At("call", "body")
    /\ m \in Sends(Top.who, Top.msg, Top.n)
    /\ Top.who = "crate" => Upgrades(handle)
    /\ stack' = Push(SetTop(stack, [Top EXCEPT !.n = @ + 1]),
                     Frame("add_message", "start", Unsent(m), "none", 0))
    /\ UNCHANGED <<events, running, controller, view, borrowed, aborted, enq, log, setC, setV>>
    /\ UNCHANGED crate_vars

\* The handler returns to next_message.
call_return ==
    /\ At("call", "body")
    /\ Top.who = "crate" =>
          CrateSends(Top.msg, Top.n) = {} /\ ~CrateInserts(Top.msg, Top.n)
    /\ stack' = Pop(stack)
    /\ UNCHANGED <<events, running, controller, view, borrowed, aborted, enq, log, setC, setV>>
    /\ UNCHANGED crate_vars

(***************************************************************************)
(* Top-level callers: app(), DOM callbacks, any client of the crate.       *)
(* Execution is single-threaded: they act only when no call is in progress.*)
(***************************************************************************)

\* A producer calls add_message(m).
producer_add_message(m) ==
    /\ Idle
    /\ Len(enq) < MaxMsgs
    /\ stack' = <<Frame("add_message", "start", Unsent(m), "none", 0)>>
    /\ UNCHANGED <<events, running, controller, view, borrowed, aborted, enq, log, setC, setV>>
    /\ UNCHANGED crate_vars

\* run is public: a client calls it directly.
producer_run ==
    /\ Idle
    /\ stack' = <<Frame("run", "start", NoMsg, "none", 0)>>
    /\ UNCHANGED <<events, running, controller, view, borrowed, aborted, enq, log, setC, setV>>
    /\ UNCHANGED crate_vars

\* next_message is public: a client calls it directly.
producer_next_message ==
    /\ Idle
    /\ stack' = <<Frame("next_message", "start", NoMsg, "none", 0)>>
    /\ UNCHANGED <<events, running, controller, view, borrowed, aborted, enq, log, setC, setV>>
    /\ UNCHANGED crate_vars

\* The argument lists of the set_controller and set_view calls made so far
\* are kept as history; MaxSets bounds their number.
SetCalls == Len(setC) + Len(setV)

\* A client binds its collaborators in one of two ways, through the setters
\* or by storing into the public cells, and does not mix them. The setters
\* are start-up calls, made before the first message is enqueued (app()
\* calls them before its add_message).
UsesSetters == setC # <<>> \/ setV # <<>>

UsesFields == controller # "none" \/ view # "none"

\* pub fn set_controller(&self, controller: Controller) {}: the body is empty,
\* the argument is dropped and the cell keeps its value.
SetControllerCell(c) == controller

set_controller(c) ==
    /\ Idle
    /\ ~UsesFields /\ enq = <<>>
    /\ SetCalls < MaxSets
    /\ setC' = Append(setC, c)
    /\ controller' = SetControllerCell(c)
    /\ UNCHANGED <<events, running, view, borrowed, aborted, stack, enq, log, setV>>
    /\ UNCHANGED crate_vars

\* pub fn set_view(&self, view: View) {}: the body is empty.
SetViewCell(v) == view

set_view(v) ==
    /\ Idle
    /\ ~UsesFields /\ enq = <<>>
    /\ SetCalls < MaxSets
    /\ setV' = Append(setV, v)
    /\ view' = SetViewCell(v)
    /\ UNCHANGED <<events, running, controller, borrowed, aborted, stack, enq, log, setC>>
    /\ UNCHANGED crate_vars

\* The cells are public fields: a client stores a Controller in the cell
\* itself (*sched.controller.borrow_mut() = Some(c)).
controller_field_assign(c) ==
    /\ Idle
    /\ ~UsesSetters
    /\ TryBorrow("controller")
    /\ controller # c
    /\ controller' = c
    /\ UNCHANGED <<events, running, view, borrowed, aborted, stack, enq, log, setC, setV>>
    /\ UNCHANGED crate_vars

\* The same for the View cell.
view_field_assign(v) ==
    /\ Idle
    /\ ~UsesSetters
    /\ TryBorrow("view")
    /\ view # v
    /\ view' = v
    /\ UNCHANGED <<events, running, controller, borrowed, aborted, stack, enq, log, setC, setV>>
    /\ UNCHANGED crate_vars

\* The collaborators a client stores into the cells in Spec: the handlers of
\* the crate's own Controller and View are instances of the contract.
Stored == {"contract"}

Next ==
    \/ add_message
    \/ add_message_return
    \/ run
    \/ run_return
    \/ next_message
    \/ next_message_called
    \/ next_message_return
    \/ \E m \in Message : call_add_message(m)
    \/ call_return
    \/ \E m \in Message : producer_add_message(m)
    \/ producer_run
    \/ producer_next_message
    \/ \E c \in Collaborators : set_controller(c)
    \/ \E v \in Collaborators : set_view(v)
    \/ \E c \in Stored : controller_field_assign(c)
    \/ \E v \in Stored : view_field_assign(v)

Spec == Init /\ [][Next]_vars

\* The steps of the program itself: a call that was made runs on, and a
\* handler returns after finitely many add_message calls.
Step ==
    \/ add_message
    \/ add_message_return
    \/ run
    \/ run_return
    \/ next_message
    \/ next_message_called
    \/ next_message_return
    \/ \E m \in Message : call_add_message(m)
    \/ call_return

\* Execution is synchronous: whatever call is in progress keeps running.
FairSpec == Init /\ [][Next]_vars /\ WF_vars(Step)

(***************************************************************************)
(* Handlers that break the collaborator contract. Every method and every   *)
(* field of the Scheduler is public and a collaborator holds a handle to   *)
(* the scheduler, so a handler can call run or next_message itself, and it *)
(* can keep a mutable borrow of the events or the running cell while it    *)
(* calls into the scheduler.                                               *)
(***************************************************************************)

Reentered == {"run", "next_message"}

Retained == {"events", "running"}

\* The handler calls sched.run() or sched.next_message(), with a RefMut of
\* cell alive when cell is not "none".
call_reenter(f, cell) ==
    /\ At("call", "body")
    /\ Top.who = "contract"
    /\ borrowed' = borrowed \cup ({cell} \cap Retained)
    /\ stack' = Push(stack, Frame(f, "start", NoMsg, "none", 0))
    /\ UNCHANGED <<events, running, controller, view, aborted, enq, log, setC, setV>>
    /\ UNCHANGED crate_vars

\* The handler calls sched.add_message(m) with a RefMut of cell alive.
call_retains(cell, m) ==
    /\ At("call", "body")
    /\ Top.who = "contract"
    /\ borrowed' = borrowed \cup {cell}
    /\ stack' = Push(stack, Frame("add_message", "start", Unsent(m), "none", 0))
    /\ UNCHANGED <<events, running, controller, view, aborted, enq, log, setC, setV>>
    /\ UNCHANGED crate_vars

ReentrantNext ==
    \/ add_message
    \/ add_message_return
    \/ run
    \/ run_return
    \/ next_message
    \/ next_message_called
    \/ next_message_return
    \/ \E m \in Message : call_add_message(m)
    \/ call_return
    \/ \E m \in Message : producer_add_message(m)
    \/ \E c \in Stored : controller_field_assign(c)
    \/ \E v \in Stored : view_field_assign(v)
    \/ \E f \in Reentered, cell \in Retained \cup {"none"} : call_reenter(f, cell)
    \/ \E cell \in Retained, m \in Message : call_retains(cell, m)

\* Clients and handlers that do not keep to add_message.
ReentrantSpec == Init /\ [][ReentrantNext]_vars

(***************************************************************************)
(* The crate's own Controller, with its Store, and View in the cells.      *)
(***************************************************************************)

\* The title typed by the user is not interpreted.
Title == "title"

\* Item { id: Date::now().to_string(), title, completed: false }
Item(now) == [id |-> now, title |-> Title, completed |-> FALSE]

\* The item is put in front of the list.
ItemListPush_Front(list, item) == <<item>> \o list

\* ItemList::push: self.list.push(item)
ItemListPush(list, item) == Append(list, item)

\* The JavaScript values the Store handles, with their type.
JsString(x) == [t |-> "string", v |-> x]

JsBoolean(b) == [t |-> "boolean", v |-> b]

JsArray(seq) == [t |-> "array", v |-> seq]

\* Items are written in reverse order.
Serialize_Reversed(list) ==
    JsArray([i \in 1..Len(list) |->
        JsArray(<<JsString(list[Len(list) + 1 - i].title),
                  JsBoolean(list[Len(list) + 1 - i].completed),
                  JsString(list[Len(list) + 1 - i].id)>>)])

\* The JSON array sync_local_storage builds: one child [title, completed, id]
\* for every item, in the order of the list.
Serialize(list) ==
    JsArray([i \in 1..Len(list) |->
        JsArray(<<JsString(list[i].title), JsBoolean(list[i].completed),
                  JsString(list[i].id)>>)])

\* JSON::stringify: the text of a value.
Stringify(value) == [json |-> TRUE, value |-> value]

\* Storage::set_item(name, text): the entry under name holds text.
SetItem(text) == [present |-> TRUE, text |-> text]

\* JSON::parse succeeds on a text that is JSON, and returns its value.
Parses(text) == text.json

\* as_string / as_bool return None for a value of another type; shift
\* returns undefined, which is neither, on an array that is exhausted.
IsString(child, k) == k <= Len(child.v) /\ child.v[k].t = "string"

IsBoolean(child, k) == k <= Len(child.v) /\ child.v[k].t = "boolean"

\* One iteration of the loop of fetch_local_storage reaches item_list.push.
ParsesItem(child) ==
    /\ child.t = "array"
    /\ IsString(child, 1)
    /\ IsBoolean(child, 2)
    /\ IsString(child, 3)

\* The Item the iteration pushes.
ParsedItem(child) ==
    [id |-> child.v[3].v, title |-> child.v[1].v, completed |-> child.v[2].v]

\* fetch_local_storage reaches `self.data = item_list` on this text: the text
\* parses, the value is iterable (an array), every child is an item.
Fetches(text) ==
    /\ Parses(text)
    /\ text.value.t = "array"
    /\ \A i \in 1..Len(text.value.v) : ParsesItem(text.value.v[i])

\* The item_list it has built then.
Fetched(text) ==
    [i \in 1..Len(text.value.v) |-> ParsedItem(text.value.v[i])]

\* The items read before the failure are kept.
DataOnNone_Partial(list, text) ==
    IF Parses(text) /\ text.value.t = "array"
    THEN LET bad == {i \in 1..Len(text.value.v) : ~ParsesItem(text.value.v[i])}
             k   == IF bad = {} THEN Len(text.value.v) + 1
                    ELSE CHOOSE i \in bad : \A j \in bad : i <= j
         IN [i \in 1..(k - 1) |-> ParsedItem(text.value.v[i])]
    ELSE <<>>

\* self.data after one of the `?` of fetch_local_storage has returned None:
\* item_list is a local that is dropped, the assignment is not reached.
DataOnNone(list, text) == list

\* Store::insert called by add_item: the item is pushed, then the list is
\* written to localStorage. set_item returns Err when the write fails (the
\* quota is exceeded, storage is disabled) and the unwrap() panics: the
\* handler and every frame below it are abandoned. The RefMut of the
\* Controller cell is dropped when the panic unwinds and stays alive when the
\* panic traps (wasm32).
call_insert(now, ok, unwinds) ==
    /\ At("call", "body")
    /\ Top.who = "crate"
    /\ CrateInserts(Top.msg, Top.n)
    /\ data' = ItemListPush(data, Item(now))
    /\ IF ok
       THEN /\ storage' = SetItem(Stringify(Serialize(data')))
            /\ stack' = SetTop(stack, [Top EXCEPT !.n = @ + 1])
            /\ UNCHANGED <<panicked, borrowed>>
       ELSE /\ panicked' = TRUE
            /\ stack' = <<>>
            /\ borrowed' = IF unwinds THEN {} ELSE borrowed
            /\ UNCHANGED storage
    /\ UNCHANGED <<events, running, controller, view, aborted, enq, log, setC, setV, result>>
    /\ UNCHANGED <<handle, boot>>

CrateNext ==
    \/ add_message
    \/ add_message_return
    \/ run
    \/ run_return
    \/ next_message
    \/ next_message_called
    \/ next_message_return
    \/ \E m \in Message : call_add_message(m)
    \/ call_return
    \/ \E now \in 1..MaxNow, ok \in BOOLEAN, unwinds \in BOOLEAN : call_insert(now, ok, unwinds)
    \/ \E m \in Message : producer_add_message(m)
    \/ controller_field_assign("crate")
    \/ view_field_assign("crate")

\* A client of the crate's Controller and View.
CrateSpec == Init /\ [][CrateNext]_vars

(***************************************************************************)
(* The crate's Controller with a sched handle that does not lead to the    *)
(* scheduler: Controller.sched is a public RefCell<Option<Weak<Scheduler>>>.*)
(***************************************************************************)

\* Some(weak) to the scheduler that dispatches, Some(weak) to a scheduler
\* that was dropped, None.
Handles == {"alive", "gone", "absent"}

\* A client stores another handle in Controller.sched.
controller_sched_assign(h) ==
    /\ Idle
    /\ ~panicked
    /\ controller = "crate"
    /\ handle # h
    /\ handle' = h
    /\ UNCHANGED <<events, running, controller, view, borrowed, aborted, stack, enq, log, setC, setV>>
    /\ UNCHANGED <<data, storage, panicked, result, boot>>

\* Controller::add_message(m) when the handle is None or does not upgrade:
\* the three `if let` fall through and the method returns.
call_add_message_skipped(m) ==
    /\ At("call", "body")
    /\ Top.who = "crate"
    /\ m \in Sends(Top.who, Top.msg, Top.n)
    /\ ~Upgrades(handle)
    /\ stack' = SetTop(stack, [Top EXCEPT !.n = @ + 1])
    /\ UNCHANGED <<events, running, controller, view, borrowed, aborted, enq, log, setC, setV>>
    /\ UNCHANGED crate_vars

HandleNext ==
    \/ CrateNext
    \/ \E h \in Handles : controller_sched_assign(h)
    \/ \E m \in Message : call_add_message_skipped(m)

\* A client of the crate's Controller that replaces its sched handle.
HandleSpec == Init /\ [][HandleNext]_vars

(***************************************************************************)
(* The Store used directly: its methods are public.                        *)
(***************************************************************************)

Titles == {Title, "other"}

Items == [id : 1..MaxNow, title : Titles, completed : BOOLEAN]

\* enum ItemQuery { Id { id }, Completed { completed }, EmptyItemQuery }
ItemQuery ==
    {EmptyItemQuery}
        \cup [kind : {"Id"}, id : 1..MaxNow, completed : {FALSE}]
        \cup [kind : {"Completed"}, id : {0}, completed : BOOLEAN]

\* Every item matches.
matches_Always(query, item) == TRUE

\* ItemQuery::matches
matches(query, item) ==
    IF query.kind = "EmptyItemQuery" THEN TRUE
    ELSE IF query.kind = "Id" THEN item.id = query.id
    ELSE item.completed = query.completed

\* self.data.iter().filter(|todo| query.matches(todo)).collect()
RECURSIVE Filter(_, _)
Filter(list, query) ==
    IF list = <<>> THEN <<>>
    ELSE IF matches(query, Head(list))
         THEN <<Head(list)>> \o Filter(Tail(list), query)
         ELSE Filter(Tail(list), query)

Returned(op, some, list, query) == [op |-> op, some |-> some, list |-> list, query |-> query]

\* Store::new(name): a Store with an empty list reads localStorage; when the
\* entry cannot be read the list stays empty.
store_new ==
    /\ ~panicked
    /\ data' = IF ~storage.present THEN <<>>
               ELSE IF Fetches(storage.text) THEN Fetched(storage.text)
               ELSE DataOnNone(<<>>, storage.text)
    /\ result' = Returned("new", TRUE, <<>>, EmptyItemQuery)
    /\ UNCHANGED <<storage, panicked, handle, boot>>
    /\ UNCHANGED <<events, running, controller, view, borrowed, aborted, stack, enq, log, setC, setV>>

\* Store::fetch_local_storage: without an entry the list becomes empty; with
\* an entry the list is replaced when every step of the reading succeeds, and
\* None is returned before the assignment otherwise.
store_fetch_local_storage ==
    /\ ~panicked
    /\ IF ~storage.present
       THEN data' = <<>> /\ result' = Returned("fetch", TRUE, <<>>, EmptyItemQuery)
       ELSE IF Fetches(storage.text)
       THEN data' = Fetched(storage.text)
            /\ result' = Returned("fetch", TRUE, <<>>, EmptyItemQuery)
       ELSE data' = DataOnNone(data, storage.text)
            /\ result' = Returned("fetch", FALSE, <<>>, EmptyItemQuery)
    /\ UNCHANGED <<storage, panicked, handle, boot>>
    /\ UNCHANGED <<events, running, controller, view, borrowed, aborted, stack, enq, log, setC, setV>>

\* Store::sync_local_storage: the list is written under the name; a failed
\* set_item panics in unwrap().
store_sync_local_storage(ok) ==
    /\ ~panicked
    /\ IF ok
       THEN /\ storage' = SetItem(Stringify(Serialize(data)))
            /\ result' = Returned("sync", TRUE, <<>>, EmptyItemQuery)
            /\ UNCHANGED panicked
       ELSE panicked' = TRUE /\ UNCHANGED <<storage, result>>
    /\ UNCHANGED <<data, handle, boot>>
    /\ UNCHANGED <<events, running, controller, view, borrowed, aborted, stack, enq, log, setC, setV>>

\* Store::insert: push, then sync_local_storage.
store_insert(item, ok) ==
    /\ ~panicked
    /\ Len(data) < MaxItems
    /\ data' = ItemListPush(data, item)
    /\ IF ok
       THEN /\ storage' = SetItem(Stringify(Serialize(data')))
            /\ result' = Returned("insert", TRUE, <<>>, EmptyItemQuery)
            /\ UNCHANGED panicked
       ELSE panicked' = TRUE /\ UNCHANGED <<storage, result>>
    /\ UNCHANGED <<events, running, controller, view, borrowed, aborted, stack, enq, log, setC, setV>>
    /\ UNCHANGED <<handle, boot>>

\* Store::find(query)
store_find(query) ==
    /\ ~panicked
    /\ result' = Returned("find", TRUE, Filter(data, query), query)
    /\ UNCHANGED <<data, storage, panicked, handle, boot>>
    /\ UNCHANGED <<events, running, controller, view, borrowed, aborted, stack, enq, log, setC, setV>>

StoreNext ==
    \/ store_new
    \/ store_fetch_local_storage
    \/ \E ok \in BOOLEAN : store_sync_local_storage(ok)
    \/ \E item \in Items, ok \in BOOLEAN : store_insert(item, ok)
    \/ \E query \in ItemQuery : store_find(query)

\* A client of the Store alone.
StoreSpec == Init /\ [][StoreNext]_vars

(***************************************************************************)
(* localStorage is shared with the page: the entry under Store.name holds  *)
(* whatever was written last, by the Store or by anything else.            *)
(***************************************************************************)

\* A JSON value that is not an array: JSON.parse returns an object, try_iter
\* finds no Symbol.iterator on it and returns Ok(None).
JsObject == [t |-> "object", v |-> <<>>]

\* The child sync_local_storage writes for Item(1).
GoodChild == JsArray(<<JsString(Title), JsBoolean(FALSE), JsString(1)>>)

\* The same child with a fourth element, which fetch_local_storage never
\* shifts.
LongChild == JsArray(<<JsString("other"), JsBoolean(TRUE), JsString(2), JsString("more")>>)

\* Children on which one of the `?` of the loop body returns None: not an
\* array, a title that is not a string, a flag that is not a boolean, an id
\* that is not a string, an array that is exhausted before the id.
BadChildren ==
    {JsString(Title),
     JsArray(<<JsBoolean(TRUE), JsBoolean(FALSE), JsString(1)>>),
     JsArray(<<JsString(Title), JsString(Title), JsString(1)>>),
     JsArray(<<JsString(Title), JsBoolean(FALSE), JsBoolean(FALSE)>>),
     JsArray(<<JsString(Title), JsBoolean(FALSE)>>)}

\* The texts another writer leaves in the entry: a text that is not JSON, the
\* text of an object, of the empty array, of lists of items, and of arrays
\* with a child that is not an item, before or after children that are.
Texts ==
    {[json |-> FALSE, value |-> JsArray(<<>>)],
     Stringify(JsObject),
     Stringify(JsArray(<<>>)),
     Stringify(JsArray(<<GoodChild>>)),
     Stringify(JsArray(<<LongChild, GoodChild>>))}
        \cup {Stringify(JsArray(<<GoodChild, bad>>)) : bad \in BadChildren}
        \cup {Stringify(JsArray(<<bad, GoodChild>>)) : bad \in BadChildren}

\* Storage.setItem(name, text) by another writer.
storage_set(text) ==
    /\ Idle
    /\ ~panicked
    /\ storage # SetItem(text)
    /\ storage' = SetItem(text)
    /\ UNCHANGED <<events, running, controller, view, borrowed, aborted, stack, enq, log, setC, setV>>
    /\ UNCHANGED <<data, panicked, result, handle, boot>>

\* Storage.removeItem(name) by another writer.
storage_remove ==
    /\ Idle
    /\ ~panicked
    /\ storage.present
    /\ storage' = NoEntry
    /\ UNCHANGED <<events, running, controller, view, borrowed, aborted, stack, enq, log, setC, setV>>
    /\ UNCHANGED <<data, panicked, result, handle, boot>>

FetchNext ==
    \/ store_new
    \/ store_fetch_local_storage
    \/ \E ok \in BOOLEAN : store_sync_local_storage(ok)
    \/ \E item \in Items, ok \in BOOLEAN : store_insert(item, ok)
    \/ \E text \in Texts : storage_set(text)
    \/ storage_remove

\* A client of the Store on an entry that other writers change.
FetchSpec == Init /\ [][FetchNext]_vars

(***************************************************************************)
(* app(name): the start-up of the crate. boot is the list of the calls app *)
(* has made; after app has returned the only code of the crate that runs   *)
(* is the hashchange listener view.init registered.                        *)
(***************************************************************************)

\* The message is sent before the View is initialised and bound.
AppOrder_MessageFirst ==
    <<"Store::new", "Controller::new", "View::new", "add_message",
      "View::init", "set_view", "set_controller">>

\* The calls of app in program order.
AppOrder ==
    <<"Store::new", "Controller::new", "View::new", "View::init",
      "set_view", "set_controller", "add_message">>

AppReturned == Last(boot) = "return"

\* app is about to make this call.
AppAt(f) ==
    /\ Idle
    /\ ~AppReturned
    /\ Len(boot) < Len(AppOrder)
    /\ AppOrder[Len(boot) + 1] = f

\* Message::Controller(ControllerMessage::SetPage(..))
SetPage == [target |-> "Controller", payload |-> "SetPage"]

\* Store::new(name): None when the window or its localStorage cannot be had,
\* and app returns; otherwise the Store has read the entry.
app_store_new(ok) ==
    /\ AppAt("Store::new")
    /\ IF ok
       THEN /\ boot' = Append(boot, "Store::new")
            /\ data' = IF ~storage.present THEN <<>>
                       ELSE IF Fetches(storage.text) THEN Fetched(storage.text)
                       ELSE DataOnNone(<<>>, storage.text)
       ELSE /\ boot' = boot \o <<"Store::new", "return">>
            /\ UNCHANGED data
    /\ UNCHANGED <<events, running, controller, view, borrowed, aborted, stack, enq, log, setC, setV>>
    /\ UNCHANGED <<storage, panicked, result, handle>>

\* Controller::new(store, Rc::downgrade(&sched))
app_controller_new ==
    /\ AppAt("Controller::new")
    /\ boot' = Append(boot, "Controller::new")
    /\ handle' = "alive"
    /\ UNCHANGED <<events, running, controller, view, borrowed, aborted, stack, enq, log, setC, setV>>
    /\ UNCHANGED <<data, storage, panicked, result>>

\* View::new(Rc::clone(&sched)): None when one of the elements of the page
\* is missing, and app does nothing more.
app_view_new(ok) ==
    /\ AppAt("View::new")
    /\ boot' = IF ok THEN Append(boot, "View::new")
               ELSE boot \o <<"View::new", "return">>
    /\ UNCHANGED <<events, running, controller, view, borrowed, aborted, stack, enq, log, setC, setV>>
    /\ UNCHANGED <<data, storage, panicked, result, handle>>

\* view.init(): the hashchange listener is registered; the bind_* methods
\* are empty.
app_view_init ==
    /\ AppAt("View::init")
    /\ boot' = Append(boot, "View::init")
    /\ UNCHANGED <<events, running, controller, view, borrowed, aborted, stack, enq, log, setC, setV>>
    /\ UNCHANGED <<data, storage, panicked, result, handle>>

\* sch.set_view(view)
app_set_view ==
    /\ AppAt("set_view")
    /\ boot' = Append(boot, "set_view")
    /\ setV' = Append(setV, "crate")
    /\ view' = SetViewCell("crate")
    /\ UNCHANGED <<events, running, controller, borrowed, aborted, stack, enq, log, setC>>
    /\ UNCHANGED <<data, storage, panicked, result, handle>>

\* sch.set_controller(controller)
app_set_controller ==
    /\ AppAt("set_controller")
    /\ boot' = Append(boot, "set_controller")
    /\ setC' = Append(setC, "crate")
    /\ controller' = SetControllerCell("crate")
    /\ UNCHANGED <<events, running, view, borrowed, aborted, stack, enq, log, setV>>
    /\ UNCHANGED <<data, storage, panicked, result, handle>>

\* sched.add_message(Message::Controller(ControllerMessage::SetPage("")))
app_add_message ==
    /\ AppAt("add_message")
    /\ boot' = Append(boot, "add_message")
    /\ stack' = <<Frame("add_message", "start", Unsent(SetPage), "none", 0)>>
    /\ UNCHANGED <<events, running, controller, view, borrowed, aborted, enq, log, setC, setV>>
    /\ UNCHANGED <<data, storage, panicked, result, handle>>

\* The end of app.
app_return ==
    /\ Idle
    /\ ~AppReturned
    /\ Len(boot) = Len(AppOrder)
    /\ boot' = Append(boot, "return")
    /\ UNCHANGED <<events, running, controller, view, borrowed, aborted, stack, enq, log, setC, setV>>
    /\ UNCHANGED <<data, storage, panicked, result, handle>>

\* The listener of view.init: sched.add_message(Message::Controller(
\* ControllerMessage::SetPage(hash))) on every hashchange event. Events are
\* delivered when no code of the page runs.
hashchange ==
    /\ AppReturned
    /\ \E k \in 1..Len(boot) : boot[k] = "View::init"
    /\ producer_add_message(SetPage)

AppNext ==
    \/ \E ok \in BOOLEAN : app_store_new(ok)
    \/ app_controller_new
    \/ \E ok \in BOOLEAN : app_view_new(ok)
    \/ app_view_init
    \/ app_set_view
    \/ app_set_controller
    \/ app_add_message
    \/ app_return
    \/ hashchange
    \/ add_message
    \/ add_message_return
    \/ run
    \/ run_return
    \/ next_message
    \/ next_message_return
    \/ \E text \in Texts : storage_set(text)
    \/ storage_remove

\* The page: app is called once, then the browser delivers events.
AppSpec == Init /\ [][AppNext]_vars

(***************************************************************************)
(* Properties                                                              *)
(***************************************************************************)

Enqueued == 1..Len(enq)

\* The positions of the log at which message id was popped.
Entries(id) == {k \in 1..Len(log) : log[k].id = id}

InLog(id) == Entries(id) # {}

Pos(id) == CHOOSE k \in 1..Len(log) : log[k].id = id

TopLevel(id) == enq[id].during = 0

\* The collaborator most recently passed to the setter of the target of
\* message id; the setters are called before the first message is enqueued.
SetFor(id) == IF enq[id].target = "Controller" THEN Last(setC) ELSE Last(setV)

\* The payloads handed to Controller::call, in order.
RECURSIVE ControllerLog(_)
ControllerLog(k) ==
    IF k = 0 THEN <<>>
    ELSE IF log[k].kind = "dispatch" /\ log[k].callee = "Controller"
         THEN Append(ControllerLog(k - 1), log[k].payload)
         ELSE ControllerLog(k - 1)

\* C1: when a top-level call has returned (no frame is left), the queue is
\* empty, the running flag is false, and every message pushed so far, by a
\* producer or by a handler, was popped exactly once: dispatched to the
\* collaborator bound for its target, or dropped when none was bound.
C1_DrainComplete ==
    Idle =>
        /\ events = <<>>
        /\ ~running
        /\ \A id \in Enqueued :
              /\ Cardinality(Entries(id)) = 1
              /\ LET e == log[Pos(id)]
                 IN IF enq[id].bound = "none"
                    THEN e.kind = "drop"
                    ELSE e.kind = "dispatch" /\ e.who = enq[id].bound

\* A top-level call has returned after a handler enqueued a message whose
\* handler enqueued a further one, and after a message was dropped.
C1_Witness ==
    /\ Idle
    /\ \E a, b \in Enqueued :
          /\ enq[a].during # 0
          /\ enq[b].during = a
          /\ log[Pos(b)].kind = "dispatch"
    /\ \E k \in 1..Len(log) : log[k].kind = "drop"

\* C2 as stated: three messages enqueued by three successive producer calls,
\* with no handler enqueuing anything, are popped in the order M3, M2, M1.
C2_ReverseOrder ==
    (Idle /\ Len(enq) = 3 /\ \A id \in Enqueued : TopLevel(id))
        => Len(log) = 3 /\ log[1].id = 3 /\ log[2].id = 2 /\ log[3].id = 1

\* C2, amended: as long as only producers have enqueued (no handler enqueued
\* anything, or none is bound), the messages are popped in the order of the
\* calls, M1, M2, M3, and each call has drained its message when it returns.
C2_CallOrder ==
    (\A id \in Enqueued : TopLevel(id))
        => /\ \A k \in 1..Len(log) : log[k].id = k
           /\ Idle => Len(log) = Len(enq)

\* Three producer calls have returned, no handler enqueued anything, and at
\* least one of the three messages was handed to a collaborator.
C2_Witness ==
    /\ Idle
    /\ Len(enq) = 3
    /\ \A id \in Enqueued : TopLevel(id)
    /\ Len(log) = 3
    /\ \E k \in 1..3 : log[k].kind = "dispatch"

\* The order of the log kept by the stack discipline.
C3_Order ==
    /\ \A x, y \in Enqueued :
          (enq[x].during # 0 /\ y \in enq[enq[x].during].below /\ InLog(y))
              => InLog(x) /\ Pos(x) < Pos(y)
    /\ \A x, y \in Enqueued :
          (x < y /\ enq[x].during # 0 /\ enq[x].during = enq[y].during /\ InLog(x))
              => InLog(y) /\ Pos(y) < Pos(x)

\* C3: every message next_message removes is the most recently pushed one
\* still in the queue; a message enqueued while M is handled is popped
\* before every message that was in the queue when M was enqueued; of two
\* messages enqueued by one handler invocation the later is popped first.
C3_StackDiscipline ==
    [][ /\ Len(log') > Len(log) =>
              /\ log'[Len(log')].id = events[Len(events)].id
              /\ \A i \in 1..Len(events) : events[i].id <= log'[Len(log')].id
        /\ C3_Order' ]_vars

\* M was enqueued above an older message Y, the handler of M enqueued X, and
\* X then Y were popped.
C3_Witness ==
    \E x, y \in Enqueued :
        /\ enq[x].during # 0
        /\ y \in enq[enq[x].during].below
        /\ InLog(x) /\ InLog(y)

\* C4: an add_message call made while the running flag is true pushes its
\* message on top of the queue and returns: no run frame is created, nothing
\* is popped or dispatched, the flag stays true; the message is popped
\* before the active session ends.
C4_PushOnly ==
    [][ /\ (At("add_message", "start") /\ running) =>
              /\ events' = Append(events, [target |-> Top.msg.target,
                                           payload |-> Top.msg.payload,
                                           id |-> Len(enq) + 1])
              /\ stack' = Pop(stack)
              /\ running'
              /\ UNCHANGED <<log, controller, view, borrowed, aborted>>
        /\ Idle' => \A id \in 1..Len(enq') : enq'[id].running => InLog(id)' ]_vars

\* A handler has called add_message while the flag was true and is still
\* running: the message waits in the queue.
C4_Witness ==
    /\ At("call", "body")
    /\ \E i \in 1..Len(events) :
          enq[events[i].id].running /\ enq[events[i].id].during = Top.msg.id

\* C5: at most one Controller::call / View::call is in progress.
C5_OneHandler ==
    Cardinality({i \in 1..Len(stack) : stack[i].fn = "call"}) <= 1

\* A Controller handler is in progress while a View message it enqueued waits.
C5_Witness ==
    /\ At("call", "body")
    /\ Top.msg.target = "Controller"
    /\ \E i \in 1..Len(events) :
          events[i].target = "View" /\ enq[events[i].id].during = Top.msg.id

\* A message enqueued for a bound collaborator is never dropped and never
\* dispatched twice, it is in the queue until it is dispatched and not after,
\* and when the top-level call has returned it was dispatched.
C6_AtMostOnce ==
    \A id \in Enqueued :
        enq[id].bound # "none" =>
            /\ Cardinality(Entries(id)) <= 1
            /\ \A k \in Entries(id) :
                  log[k].kind = "dispatch" /\ log[k].who = enq[id].bound
            /\ InLog(id) <=> id \notin Ids(events)
            /\ Idle => InLog(id)

\* C6: every message enqueued for a bound collaborator is eventually
\* dispatched, to exactly one call of that collaborator's handler: never
\* twice, never dropped, never left in the queue.
C6_ExactlyOnce ==
    /\ []C6_AtMostOnce
    /\ \A id \in 1..MaxMsgs :
          (id \in Enqueued /\ enq[id].bound # "none")
              ~> (id \in Enqueued /\ InLog(id) /\ log[Pos(id)].kind = "dispatch")

\* Messages for bound collaborators, one enqueued by a handler, were all
\* dispatched when the call returned.
C6_Witness ==
    /\ Idle
    /\ Len(enq) >= 3
    /\ \A id \in Enqueued : enq[id].bound # "none" /\ InLog(id)
    /\ \E id \in Enqueued : enq[id].during # 0

\* C7 as stated: a message enqueued after set_controller(c) / set_view(v) is
\* dispatched to c / v when it is popped.
C7_BindingTakesEffect ==
    \A k \in 1..Len(log) :
        SetFor(log[k].id) # "none" =>
            log[k].kind = "dispatch" /\ log[k].who = SetFor(log[k].id)

\* C8 as stated: after set_controller of a Controller whose handler enqueues
\* a second message and after set_view, when the first producer call,
\* add_message of the Controller message app() starts with, has returned, the
\* Controller has received that message and then the second one, the queue
\* is empty and the flag is false.
C8_EndToEnd ==
    (/\ Idle
     /\ enq # <<>>
     /\ enq[1].target = "Controller" /\ enq[1].payload = "SetPage"
     /\ Last(setC) = "contract" /\ Last(setV) # "none"
     /\ Cardinality({id \in Enqueued : TopLevel(id)}) = 1)
        => /\ ControllerLog(Len(log)) = <<"SetPage", "AddItem">>
           /\ events = <<>>
           /\ ~running

\* C9: a message whose target is unbound is popped without a call of a
\* handler and without abort; when the enqueue has returned the queue is
\* empty and the flag is false.
C9_UnboundDrop ==
    /\ ~aborted
    /\ \A k \in 1..Len(log) :
          enq[log[k].id].bound = "none" =>
              log[k].kind = "drop" /\ log[k].callee = "none"
    /\ (Idle /\ enq # <<>> /\ enq[Len(enq)].bound = "none")
          => InLog(Len(enq)) /\ events = <<>> /\ ~running

\* A View message enqueued before set_view was ever called, and with an
\* empty View cell, was dropped and the call returned.
C9_Witness ==
    /\ Idle
    /\ \E k \in 1..Len(log) :
          /\ log[k].kind = "drop"
          /\ enq[log[k].id].target = "View"
          /\ setV = <<>>

\* C10: a message is handed to the collaborator its tag names, with the
\* payload it was enqueued with, and it waits in the queue unchanged.
C10_RoutesByTag ==
    /\ \A k \in 1..Len(log) :
          log[k].kind = "dispatch" =>
              /\ log[k].callee = enq[log[k].id].target
              /\ log[k].payload = enq[log[k].id].payload
              /\ log[k].payload \in ControllerMessage <=> log[k].callee = "Controller"
              /\ log[k].payload \in ViewMessage <=> log[k].callee = "View"
    /\ \A i \in 1..Len(events) :
          /\ events[i].target = enq[events[i].id].target
          /\ events[i].payload = enq[events[i].id].payload

\* Both Controller payloads and a View payload were dispatched.
C10_Witness ==
    /\ \E k \in 1..Len(log) : log[k].kind = "dispatch" /\ log[k].payload = "SetPage"
    /\ \E k \in 1..Len(log) : log[k].kind = "dispatch" /\ log[k].payload = "AddItem"
    /\ \E k \in 1..Len(log) : log[k].kind = "dispatch" /\ log[k].payload = "ClearNewTodo"

\* The frames of the run-loop on the call stack.
LoopFrames == {i \in 1..Len(stack) : stack[i].fn \in {"run", "next_message"}}

LoopActive == LoopFrames # {}

\* C11 as stated: the running flag is true exactly when a run or next_message
\* frame is on the call stack.
C11_FlagIffLoopActive == running <=> LoopActive

\* C11, amended: the flag is true only while a run-loop frame is on the
\* stack. A run-loop frame is on the stack with the flag false only before
\* the first frame of the loop has written the flag (a run frame, or a
\* next_message frame called directly, that has not executed yet and is the
\* only frame of the loop) or after the flag was cleared on an empty queue,
\* while the frames of the loop return; no handler is in progress then.
C11_FlagOnlyWhileLoopActive ==
    /\ running => LoopActive
    /\ (LoopActive /\ ~running) =>
          /\ \A i \in 1..Len(stack) : stack[i].fn # "call"
          /\ \/ Top.pc = "start" /\ LoopFrames = {Len(stack)}
             \/ events = <<>> /\ \A i \in 1..Len(stack) : stack[i].pc = "ret"

\* The flag was cleared on the empty queue after a handler's message was
\* drained, and the frames of the loop are still returning.
C11_Witness ==
    /\ LoopActive /\ ~running
    /\ Cardinality(LoopFrames) >= 4
    /\ \E id \in Enqueued : enq[id].during # 0 /\ InLog(id)

\* C12: an add_message call made while the flag is false pushes its message
\* and calls run itself instead of returning; every message handed to a
\* handler is popped while the flag is true; the call returns only when the
\* queue is empty and the flag is false again.
C12_StartsSession ==
    [][ /\ (At("add_message", "start") /\ ~running) =>
              /\ events' = Append(events, [target |-> Top.msg.target,
                                           payload |-> Top.msg.payload,
                                           id |-> Len(enq) + 1])
              /\ stack' = Push(SetTop(stack, [Top EXCEPT !.pc = "ret"]),
                               Frame("run", "start", NoMsg, "none", 0))
              /\ UNCHANGED <<log, running>>
        /\ (Len(log') > Len(log) /\ log'[Len(log')].kind = "dispatch") => running
        /\ At("add_message", "ret") =>
              /\ events = <<>> /\ ~running
              /\ stack' = Pop(stack)
              /\ \A id \in Enqueued : InLog(id) ]_vars

\* The add_message call that started a session is about to return, after the
\* session dispatched its message and one a handler enqueued.
C12_Witness ==
    /\ At("add_message", "ret")
    /\ \E a, b \in Enqueued :
          /\ enq[a].during = 0 /\ ~enq[a].running
          /\ enq[b].during = a
          /\ log[Pos(a)].kind = "dispatch" /\ log[Pos(b)].kind = "dispatch"

\* C13: the flag goes from true to false only in a step of run or
\* next_message that finds the queue empty; a step taken with the flag true
\* and a message in the queue leaves the flag true; the flag goes from false
\* to true only in a step of run that finds a message in the queue; and run
\* or next_message finding the queue empty always leaves the flag false.
C13_FlagLifecycle ==
    [][ /\ (running /\ ~running') =>
              /\ events = <<>> /\ events' = <<>>
              /\ Top.fn \in {"run", "next_message"} /\ Top.pc = "start"
        /\ (running /\ events # <<>>) => running'
        /\ (~running /\ running') => (At("run", "start") /\ events # <<>>)
        /\ ((At("run", "start") \/ At("next_message", "start")) /\ events = <<>>)
              => ~running' ]_vars

\* The innermost run of a session that drained a handler's message has found
\* the queue empty and cleared the flag, and the run that called the last
\* next_message is about to return.
C13_Witness ==
    /\ At("run", "ret") /\ ~running /\ events = <<>>
    /\ Len(log) >= 3
    /\ \E id \in Enqueued : enq[id].during # 0 /\ enq[id].running

\* C14: a frame of the run-loop returns only when the queue is empty, a
\* top-level call never returns while a message is queued, and every call in
\* progress eventually returns with the queue empty (handlers return and the
\* number of messages enqueued is finite).
C14_TerminatesWhenEmpty ==
    /\ [][ /\ (LoopActive /\ Top.fn \in {"run", "next_message"} /\ stack' = Pop(stack))
                 => events' = <<>>
           /\ (stack # <<>> /\ stack' = <<>>) => events' = <<>> ]_vars
    /\ (stack # <<>>) ~> (stack = <<>> /\ events = <<>>)

\* The last next_message of a session that popped as many messages as the
\* bound allows, some enqueued by handlers, is about to return.
C14_Witness ==
    /\ At("next_message", "ret") /\ events = <<>>
    /\ Len(log) = MaxMsgs
    /\ \E id \in Enqueued : enq[id].during # 0

\* C15: with single-threaded clients and handlers that touch the scheduler
\* only through add_message, exit is never reached: whenever add_message,
\* run or next_message is about to execute, the cells it borrows (running,
\* events, and the cell of the collaborator the top message is routed to)
\* are free.
C15_NoBorrowFailure ==
    /\ ~aborted
    /\ (At("add_message", "start") \/ At("run", "start") \/ At("next_message", "start"))
          => TryBorrow("running") /\ TryBorrow("events")
    /\ (At("next_message", "start") /\ events # <<>>)
          => TryBorrow(Route(events[PopIndex(events)]))

\* A handler enqueued a message for its own collaborator while it held the
\* cell, and that message was dispatched afterwards.
C15_Witness ==
    \E a, b \in Enqueued :
        /\ enq[b].during = a
        /\ enq[a].target = enq[b].target
        /\ InLog(b) /\ log[Pos(b)].kind = "dispatch"

\* C18: a direct call of run on an empty queue returns at once, pops and
\* dispatches nothing, leaves the queue empty and the flag false; the state
\* after the call is the state before it, so a further call does the same.
C18_RunOnEmptyIdle ==
    [][ (At("run", "start") /\ Len(stack) = 1 /\ events = <<>>) =>
            /\ ~running /\ ~running'
            /\ events' = <<>>
            /\ stack' = <<>>
            /\ UNCHANGED <<controller, view, borrowed, aborted, enq, log, setC, setV>> ]_vars

\* A client has called run directly, after earlier sessions drained messages
\* and returned.
C18_Witness ==
    /\ At("run", "start") /\ Len(stack) = 1 /\ events = <<>>
    /\ Len(log) >= 2

\* C19: a message that was dropped because its target was unbound when it
\* was popped is gone: it is not in the queue, no handler holds it, and it
\* is never popped again, also not after its collaborator was bound and
\* further messages were enqueued and dispatched.
C19_NoRedelivery ==
    \A id \in Enqueued :
        (\E k \in Entries(id) : log[k].kind = "drop") =>
            /\ Cardinality(Entries(id)) = 1
            /\ id \notin Ids(events)
            /\ \A i \in 1..Len(stack) : stack[i].msg.id # id

\* A message was dropped, its collaborator was bound afterwards, and two
\* later messages for the same target were dispatched to it.
C19_Witness ==
    /\ Idle
    /\ \E a, b, c \in Enqueued :
          /\ a < b /\ b < c
          /\ enq[a].target = enq[b].target /\ enq[b].target = enq[c].target
          /\ log[Pos(a)].kind = "drop"
          /\ log[Pos(b)].kind = "dispatch"
          /\ log[Pos(c)].kind = "dispatch"

\* C20 as stated: after a second set_controller (set_view) call every
\* Controller (View) message popped is dispatched to the collaborator of the
\* second call, and the cell holds that collaborator.
C20_RebindReplaces ==
    /\ Len(setC) >= 2 =>
          /\ controller = setC[Len(setC)]
          /\ \A k \in 1..Len(log) :
                enq[log[k].id].target = "Controller"
                    => log[k].kind = "dispatch" /\ log[k].who = setC[Len(setC)]
    /\ Len(setV) >= 2 =>
          /\ view = setV[Len(setV)]
          /\ \A k \in 1..Len(log) :
                enq[log[k].id].target = "View"
                    => log[k].kind = "dispatch" /\ log[k].who = setV[Len(setV)]

\* The innermost frame is a scheduler method whose next borrow fails.
BorrowFails ==
    \/ At("add_message", "start") /\ (~TryBorrow("running") \/ ~TryBorrow("events"))
    \/ At("run", "start") /\ (~TryBorrow("events") \/ ~TryBorrow("running"))
    \/ At("next_message", "start") /\
          \/ ~TryBorrow("events")
          \/ events = <<>> /\ ~TryBorrow("running")
          \/ events # <<>> /\ ~TryBorrow(Route(events[PopIndex(events)]))

\* C16: a step of add_message, run or next_message whose borrow fails ends
\* in the aborted state without a push, a dispatch or a change of the flag
\* (when it is the collaborator cell that is busy, the message was popped
\* before the borrow was tried and is lost); no step is taken from an
\* aborted state.
C16_AbortIsTerminal ==
    [][ /\ ~aborted
        /\ BorrowFails =>
              /\ aborted'
              /\ UNCHANGED <<running, controller, view, borrowed, stack, enq, log>>
              /\ \/ events' = events
                 \/ /\ At("next_message", "start") /\ TryBorrow("events")
                    /\ events' = Remove(events, PopIndex(events))
        /\ aborted' => BorrowFails ]_vars

\* The process aborted in the middle of a session: the flag is true, a
\* message is still queued and a handler was in progress.
C16_Witness ==
    /\ aborted
    /\ running /\ events # <<>>
    /\ \E i \in 1..Len(stack) : stack[i].fn = "call"

\* C17 as stated: after a handler of a collaborator failed (the Store could
\* not write localStorage during Controller::add_item), once no call is in
\* progress the queue is drained, the flag is false and no cell is borrowed,
\* and every message enqueued afterwards is popped.
C17_FailureStaysLocal ==
    (panicked /\ Idle) =>
        /\ events = <<>>
        /\ ~running
        /\ borrowed = {}
        /\ \A id \in Enqueued : InLog(id)

\* The handler frames below the innermost frame.
OuterCalls == {i \in 1..(Len(stack) - 1) : stack[i].fn = "call"}

\* C21 as stated: a message enqueued by a handler is dispatched by a drain
\* nested inside that handler: when its own handler starts, the frame of the
\* handler that enqueued it is still on the stack.
C21_NestedDrain ==
    (At("call", "body") /\ enq[Top.msg.id].during # 0)
        => \E i \in OuterCalls : stack[i].msg.id = enq[Top.msg.id].during

\* C21, amended: a handler's add_message pushes and returns without a run
\* frame, and a message enqueued by a handler is handed to its own handler
\* only after the enqueuing handler has returned: no other handler frame is
\* on the stack then, and the message is dispatched by the session that
\* dispatched the enqueuing handler's message.
C21_DispatchAfterReturn ==
    [][ /\ (At("add_message", "start") /\ CallerMsgId # 0) => stack' = Pop(stack)
        /\ (At("call", "body") /\ enq[Top.msg.id].during # 0) =>
              /\ OuterCalls = {}
              /\ InLog(enq[Top.msg.id].during)
              /\ Pos(enq[Top.msg.id].during) < Pos(Top.msg.id)
              /\ running ]_vars

\* The handler of a message that another handler enqueued is running.
C21_Witness ==
    /\ At("call", "body")
    /\ enq[Top.msg.id].during # 0
    /\ log[Pos(enq[Top.msg.id].during)].kind = "dispatch"

\* C22: the text sync_local_storage writes for the list of the Store holds
\* one child per item, in the order of the list, each with the title, the
\* completed flag and the id in that order; fetch_local_storage reads that
\* text completely and builds the same items in the same order; what the
\* Store wrote last is the text of its list, and a Store that has just read
\* the entry holds the items that were written.
C22_RoundTrip ==
    LET text == Stringify(Serialize(data))
    IN /\ Fetches(text)
       /\ Fetched(text) = data
       /\ Len(text.value.v) = Len(data)
       /\ \A i \in 1..Len(data) :
             /\ text.value.v[i].v[1] = JsString(data[i].title)
             /\ text.value.v[i].v[2] = JsBoolean(data[i].completed)
             /\ text.value.v[i].v[3] = JsString(data[i].id)
       /\ (storage.present /\ ~panicked) => storage.text = text
       /\ (storage.present /\ ~panicked /\ result.op \in {"new", "fetch"}) =>
             result.some /\ data = Fetched(storage.text)

\* A Store was created on an entry that holds two different items, one of
\* them completed.
C22_Witness ==
    /\ result.op = "new"
    /\ storage.present
    /\ Len(data) = 2
    /\ data[1] # data[2]
    /\ data[1].completed /\ ~data[2].completed

\* The positions of the items of the list that the query selects.
Selected(query) ==
    {i \in 1..Len(data) :
        \/ query.kind = "EmptyItemQuery"
        \/ query.kind = "Id" /\ data[i].id = query.id
        \/ query.kind = "Completed" /\ data[i].completed = query.completed}

\* The k-th of them.
Kth(query, k) ==
    CHOOSE i \in Selected(query) : Cardinality({j \in Selected(query) : j <= i}) = k

\* C23: find returns Some list that holds exactly the items the query
\* selects (all for EmptyItemQuery, those with the id for Id, those with the
\* flag for Completed), in their stored order, and leaves the list of the
\* Store and localStorage as they were.
C23_FindSelects ==
    [][ (result'.op = "find" /\ panicked' = panicked) =>
            /\ UNCHANGED <<data, storage>>
            /\ result'.some
            /\ Len(result'.list) = Cardinality(Selected(result'.query))
            /\ \A k \in 1..Len(result'.list) :
                  result'.list[k] = data[Kth(result'.query, k)] ]_vars

\* find has selected the second of two items by its completed flag.
C23_Witness ==
    /\ result.op = "find"
    /\ result.query.kind = "Completed"
    /\ Len(data) = 2
    /\ result.list = <<data[2]>>
    /\ data[1].id = data[2].id

RunFrame == Frame("run", "start", NoMsg, "none", 0)

\* C24: a next_message step on a non-empty queue removes exactly the top
\* message, records one pop, and either starts one handler for it or, for an
\* unbound target, none; when the handler has returned, or at once after a
\* drop, next_message calls run; a run step on a non-empty queue leaves the
\* flag true, pops nothing and calls next_message.
C24_OneMessagePerCall ==
    [][ /\ (At("next_message", "start") /\ events # <<>>) =>
              /\ events' = SubSeq(events, 1, Len(events) - 1)
              /\ Len(log') = Len(log) + 1
              /\ log'[Len(log')].id = events[Len(events)].id
              /\ IF log'[Len(log')].kind = "dispatch"
                 THEN /\ Len(stack') = Len(stack) + 1
                      /\ stack'[Len(stack')].fn = "call"
                      /\ stack'[Len(stack')].msg = events[Len(events)]
                      /\ stack'[Len(stack)].pc = "called"
                 ELSE /\ stack'[Len(stack')] = RunFrame
                      /\ stack'[Len(stack)].pc = "ret"
        /\ At("next_message", "called") =>
              /\ stack' = Push(SetTop(stack, [Top EXCEPT !.pc = "ret"]), RunFrame)
              /\ UNCHANGED <<events, log, running>>
        /\ (At("run", "start") /\ events # <<>>) =>
              /\ running'
              /\ UNCHANGED <<events, log>>
              /\ stack'[Len(stack')] = Frame("next_message", "start", NoMsg, "none", 0)
              /\ Len(stack') = Len(stack) + 1 ]_vars

\* A handler that enqueued two messages has returned to next_message, which
\* is about to call run.
C24_Witness ==
    /\ At("next_message", "called")
    /\ Len(events) >= 2
    /\ \A i \in 1..Len(events) : enq[events[i].id].during = Top.msg.id

\* C25: the step that drops a message for an unbound target removes only
\* that message, leaves the flag true and calls run; the session goes on,
\* and when its top-level call has returned the queue is empty and every
\* message was popped.
C25_DropContinues ==
    [][ /\ (Len(log') > Len(log) /\ log'[Len(log')].kind = "drop") =>
              /\ stack'[Len(stack')] = RunFrame
              /\ Len(stack') = Len(stack) + 1
              /\ running /\ running'
              /\ events' = SubSeq(events, 1, Len(events) - 1)
        /\ Idle' => (events' = <<>> /\ \A id \in 1..Len(enq') : InLog(id)') ]_vars

\* A message was dropped while an older message waited below it, and the
\* older one was dispatched later in the session, which has ended.
C25_Witness ==
    /\ Idle
    /\ \E a, b \in Enqueued :
          /\ b < a
          /\ log[Pos(a)].kind = "drop"
          /\ Pos(a) < Pos(b)
          /\ log[Pos(b)].kind = "dispatch"

\* C26: a next_message step on an empty queue, with its cells free, writes
\* false to the flag and returns: nothing is popped or dispatched and no run
\* frame is created.
C26_EmptyQueueClears ==
    [][ (At("next_message", "start") /\ events = <<>>
            /\ TryBorrow("events") /\ TryBorrow("running")) =>
            /\ ~running'
            /\ stack' = Pop(stack)
            /\ UNCHANGED <<events, log, enq, borrowed, aborted, controller, view>> ]_vars

\* next_message was called on an empty queue while the flag is true (by a
\* handler, inside a session).
C26_Witness ==
    /\ At("next_message", "start") /\ events = <<>>
    /\ TryBorrow("events") /\ TryBorrow("running")
    /\ running

\* C27: while a handler frame is on the stack, from the dispatch to the
\* handler's return and through every add_message call it makes, the
\* running flag is true.
C27_FlagDuringHandler ==
    (\E i \in 1..Len(stack) : stack[i].fn = "call") => running

\* A handler is running after two of its add_message calls have returned.
C27_Witness ==
    /\ At("call", "body")
    /\ Top.n >= 2
    /\ Cardinality({id \in Enqueued : enq[id].during = Top.msg.id}) >= 2

\* C28: a top-level add_message call is made with the queue empty and the
\* flag false; every message enqueued before it, by a producer or a handler,
\* was popped before its own message is; and when the call has returned its
\* message and all others were popped. So top-level messages are popped in
\* the order of their calls.
C28_TopLevelOrder ==
    /\ \A y \in Enqueued :
          TopLevel(y) =>
              /\ enq[y].below = {} /\ ~enq[y].running
              /\ \A x \in 1..(y - 1) : InLog(x) /\ (InLog(y) => Pos(x) < Pos(y))
    /\ Idle => \A id \in Enqueued : InLog(id)

\* Two top-level calls have returned; the handler of the first message
\* enqueued a further one, and all three were dispatched.
C28_Witness ==
    /\ Idle
    /\ \E x, y, z \in Enqueued :
          /\ TopLevel(x) /\ TopLevel(y) /\ x < y
          /\ enq[z].during = x
          /\ log[Pos(x)].kind = "dispatch"
          /\ log[Pos(y)].kind = "dispatch"
          /\ log[Pos(z)].kind = "dispatch"

\* The next_message frames that have popped their message.
PoppedFrames == {i \in 1..Len(stack) : stack[i].fn = "next_message" /\ stack[i].pc # "start"}

RunFrames == {i \in 1..Len(stack) : stack[i].fn = "run"}

\* The number of messages popped before the current session began: the
\* session was started by the latest top-level add_message, and everything
\* enqueued before it was popped by then.
SessionBase ==
    IF \E id \in Enqueued : TopLevel(id)
    THEN (CHOOSE id \in Enqueued : TopLevel(id) /\ \A o \in Enqueued : TopLevel(o) => o <= id) - 1
    ELSE 0

\* The stack holds one next_message frame, above one run frame, for every
\* message the session has popped, and the handler of the k-th message of
\* the session runs below k next_message frames.
C29_Depth ==
    /\ running =>
          /\ Cardinality(PoppedFrames) = Len(log) - SessionBase
          /\ Cardinality(RunFrames) \in
                {Cardinality(PoppedFrames), Cardinality(PoppedFrames) + 1}
    /\ At("call", "body") =>
          Cardinality(PoppedFrames) = Pos(Top.msg.id) - SessionBase

\* C29: while the flag is true no run or next_message frame returns, and
\* the stack holds one next_message frame, above one run frame, for every
\* message the session has popped; when the k-th message of the session is
\* handed to its handler, k next_message frames are on the stack.
C29_NestingDepth ==
    [][ /\ C29_Depth'
        /\ running' => \A i \in LoopFrames : i \in LoopFrames' ]_vars

\* The third message of a session is being handled below three nested
\* next_message frames.
C29_Witness ==
    /\ At("call", "body")
    /\ Cardinality(PoppedFrames) = 3
    /\ Pos(Top.msg.id) - SessionBase = 3

\* The AddItem messages handed to the crate's Controller.
AddItems ==
    {id \in Enqueued :
        /\ InLog(id)
        /\ log[Pos(id)].kind = "dispatch"
        /\ log[Pos(id)].who = "crate"
        /\ log[Pos(id)].payload = "AddItem"}

\* The frame of the handler of message id, if it is still on the stack.
HandlerFrames(id) == {i \in 1..Len(stack) : stack[i].fn = "call" /\ stack[i].msg.id = id}

\* The handler of id has made its first call, the insert, or has ended.
Inserted(id) == \A i \in HandlerFrames(id) : stack[i].n >= 1

\* The messages enqueued by the handler of id.
SentBy(id) == {m \in Enqueued : enq[m].during = id}

\* C30 as stated: every add_item the scheduler dispatches inserts one item
\* with completed = false, then enqueues exactly one ClearNewTodo for the
\* View; that message is popped only after add_item has returned, and it
\* was popped when the session has ended.
C30_AddItemOrder ==
    /\ Len(data) = Cardinality({id \in AddItems : Inserted(id)})
    /\ \A i \in 1..Len(data) : ~data[i].completed
    /\ \A id \in AddItems :
          /\ HandlerFrames(id) = {} =>
                /\ Cardinality(SentBy(id)) = 1
                /\ \A m \in SentBy(id) :
                      enq[m].target = "View" /\ enq[m].payload = "ClearNewTodo"
          /\ \A m \in SentBy(id) :
                /\ InLog(m) => HandlerFrames(id) = {}
                /\ Idle => InLog(m)

\* The crate's Controller is about to call Controller::add_message.
Forwarding ==
    At("call", "body") /\ Top.who = "crate" /\ CrateSends(Top.msg, Top.n) # {}

\* C31: when its handle leads to the scheduler, Controller::add_message
\* calls Scheduler::add_message once, with its argument wrapped as a View
\* message, and that call pushes exactly one message; when the handle is
\* None or the scheduler it refers to is gone, the method returns with the
\* queue, the flag and the log untouched, without abort and without panic,
\* and the handler goes on. No add_item enqueues more than one message.
C31_ForwardsIfAlive ==
    [][ /\ Forwarding =>
              /\ UNCHANGED <<events, enq, log, running, aborted, panicked, borrowed>>
              /\ IF handle = "alive"
                 THEN /\ Len(stack') = Len(stack) + 1
                      /\ stack'[Len(stack')] =
                            Frame("add_message", "start", Unsent(ViewClearNewTodo), "none", 0)
                 ELSE stack' = SetTop(stack, [Top EXCEPT !.n = @ + 1])
        /\ (At("add_message", "start") /\ CallerMsgId \in AddItems) =>
              /\ ~aborted'
              /\ Len(enq') = Len(enq) + 1
              /\ enq'[Len(enq')].target = "View"
              /\ enq'[Len(enq')].payload = Top.msg.payload
              /\ enq'[Len(enq')].during = CallerMsgId
        /\ \A id \in AddItems : Cardinality(SentBy(id)) <= 1 ]_vars

\* add_item has called Controller::add_message with a handle that does not
\* lead to the scheduler and goes on, nothing enqueued; an earlier add_item,
\* with the handle alive, had its ClearNewTodo enqueued.
C31_Witness ==
    /\ At("call", "body") /\ Top.who = "crate" /\ Top.n = 2
    /\ handle # "alive"
    /\ SentBy(Top.msg.id) = {}
    /\ ~panicked /\ ~aborted
    /\ \E id \in AddItems : SentBy(id) # {}

\* The place of a call in the list of the calls app has made, 0 before it.
BootPos(f) ==
    IF \E k \in 1..Len(boot) : boot[k] = f
    THEN CHOOSE k \in 1..Len(boot) : boot[k] = f
    ELSE 0

\* app returned because Store::new or View::new returned None.
BootFailed ==
    /\ AppReturned
    /\ Len(boot) >= 2
    /\ boot[Len(boot) - 1] \in {"Store::new", "View::new"}

\* C32: app passes its SetPage message to add_message once, and only after
\* view.init, set_view and set_controller were called, in that order, once
\* each with the crate's View and Controller; until app returns the queue
\* history holds that message alone, sent to the Controller from outside any
\* handler; when Store::new or View::new returned None the setters were
\* never called, both cells are empty and no message is ever enqueued.
C32_BootstrapOrder ==
    /\ Cardinality({k \in 1..Len(boot) : boot[k] = "add_message"}) <= 1
    /\ (enq # <<>> \/ BootPos("add_message") > 0) =>
          /\ 0 < BootPos("View::init")
          /\ BootPos("View::init") < BootPos("set_view")
          /\ BootPos("set_view") < BootPos("set_controller")
          /\ BootPos("set_controller") < BootPos("add_message")
          /\ setV = <<"crate">> /\ setC = <<"crate">>
    /\ ~AppReturned => Len(enq) <= 1
    /\ enq # <<>> =>
          /\ enq[1].target = "Controller" /\ enq[1].payload = "SetPage"
          /\ enq[1].during = 0
    /\ (AppReturned /\ ~BootFailed) => enq # <<>>
    /\ BootFailed =>
          /\ enq = <<>> /\ events = <<>> /\ stack = <<>>
          /\ setC = <<>> /\ setV = <<>>
          /\ controller = "none" /\ view = "none"

\* app has returned after its message was enqueued and taken off the queue,
\* on an entry the Store could read, and a hashchange event has sent a
\* second message.
C32_Witness ==
    /\ AppReturned /\ ~BootFailed
    /\ Idle
    /\ Len(enq) = 2
    /\ data # <<>>
    /\ \E k \in 1..Len(log) : log[k].id = 1

\* app has returned after View::new found an element missing, and the entry
\* was written again since.
C32_FailureWitness ==
    /\ BootFailed
    /\ boot[Len(boot) - 1] = "View::new"
    /\ data # <<>>
    /\ ~storage.present

\* The list the entry holds, as fetch_local_storage reads it.
Persisted == Fetched(storage.text)

\* C33: a call of Store::insert that returns leaves the list one item
\* longer, with the items it held before in their places and the new item
\* last, and leaves in the entry the text of this whole list: read back, the
\* entry gives the items of the list in the order they were inserted.
C33_InsertAppendsAndPersists ==
    [][(result'.op = "insert" /\ ~panicked' /\ Len(data') = Len(data) + 1) =>
          /\ SubSeq(data', 1, Len(data)) = data
          /\ data'[Len(data')] \in Items
          /\ storage'.present
          /\ storage'.text = Stringify(Serialize(data'))
          /\ Fetches(storage'.text)
          /\ Persisted' = data']_vars

\* Two different items were inserted one after the other into a new Store
\* and the entry holds both, the first one first.
C33_Witness ==
    /\ result.op = "insert"
    /\ ~panicked
    /\ Len(data) = 2
    /\ data[1] # data[2]
    /\ storage.present
    /\ Persisted = data

\* The text is not JSON, or its value is not an array, or one of the
\* children is not an array that starts with a string, a boolean and a
\* string.
Malformed(text) ==
    \/ ~text.json
    \/ text.value.t # "array"
    \/ \E i \in 1..Len(text.value.v) :
          LET child == text.value.v[i]
          IN \/ child.t # "array"
             \/ Len(child.v) < 3
             \/ child.v[1].t # "string"
             \/ child.v[2].t # "boolean"
             \/ child.v[3].t # "string"

\* A step of fetch_local_storage, and one of Store::new.
FetchStep == result'.op = "fetch" /\ storage' = storage /\ panicked' = panicked

NewStep == result'.op = "new" /\ storage' = storage /\ panicked' = panicked

\* C34: fetch_local_storage on an entry whose text is malformed returns None
\* and leaves the list of the Store as it was, whatever children it had read
\* before the one that fails; on an entry whose children are all items it
\* returns Some and the list is the items of the entry, in their order;
\* without an entry it returns Some and the list is empty. Store::new holds
\* the empty list when the entry is absent or malformed, and the items of
\* the entry otherwise.
C34_AllOrNothing ==
    [][/\ FetchStep =>
             IF ~storage.present
             THEN result'.some /\ data' = <<>>
             ELSE IF Malformed(storage.text)
             THEN ~result'.some /\ data' = data
             ELSE /\ result'.some
                  /\ Len(data') = Len(storage.text.value.v)
                  /\ \A i \in 1..Len(data') :
                        /\ data'[i].title = storage.text.value.v[i].v[1].v
                        /\ data'[i].completed = storage.text.value.v[i].v[2].v
                        /\ data'[i].id = storage.text.value.v[i].v[3].v
       /\ NewStep =>
             /\ result'.some
             /\ data' = IF storage.present /\ ~Malformed(storage.text)
                        THEN Fetched(storage.text) ELSE <<>>]_vars

\* fetch_local_storage has returned None on an entry whose first child is an
\* item and whose second is not, and the Store holds the two items it held
\* before, neither of them the one that was read.
C34_Witness ==
    /\ result.op = "fetch" /\ ~result.some
    /\ ~panicked
    /\ storage.present
    /\ Parses(storage.text) /\ storage.text.value.t = "array"
    /\ Len(storage.text.value.v) = 2
    /\ ParsesItem(storage.text.value.v[1])
    /\ ~ParsesItem(storage.text.value.v[2])
    /\ Len(data) = 2
    /\ \A i \in 1..2 : data[i] # ParsedItem(storage.text.value.v[1])
====
